---------------------------- MODULE Spec2Model ----------------------------
(***************************************************************************)
(* pywayland.message.Message: the translation between Python call          *)
(* arguments and the  union wl_argument []  array of a wayland message.    *)
(*                                                                         *)
(* The state is one Message (signature, types), the module-level           *)
(* weakkeydict, the raw array a caller of arguments_to_c currently holds   *)
(* (with the values it passed, as _post_event holds both), and the last    *)
(* call made on the Message.                                               *)
(***************************************************************************)
EXTENDS Integers, Sequences, FiniteSets, TLC

VARIABLES signature, types, weakkeydict, frame, call

vars == <<signature, types, weakkeydict, frame, call>>

(***************************************************************************)
(* Bounds of the model.                                                    *)
(***************************************************************************)
\* Longest signature string drawn exhaustively (the signatures of
\* wl_events.py and of the core protocol are added whatever their length).
MaxSigLen == 1

\* Most values a caller passes beyond the ones the signature consumes.
MaxExtra == 1

(***************************************************************************)
(* Python values.  One record shape per Python type.                       *)
(* A float is the rational num / FloatDen; a str is its sequence of code   *)
(* points (ASCII here, so that utf-8 is one byte per code point).          *)
(***************************************************************************)
None == [t |-> "NoneType"]

PyInt(n) == [t |-> "int", i |-> n]

PyFloat(n) == [t |-> "float", num |-> n]

PyStr(cs) == [t |-> "str", chars |-> cs]

PyBytes(bs) == [t |-> "bytes", bytes |-> bs]

\* An interface object: it has a _ptr and the interface it was made from.
PyObj(iface, p) == [t |-> "object", iface |-> iface, ptr |-> p]

\* wl_fixed_t is 24.8 fixed point: 1.0 is 256.
FixedOne == 256

\* Floats of the model are multiples of 1/1024, a quarter of a wl_fixed_t step.
FloatDen == 4 * FixedOne

IsNumber(v) == v.t \in {"int", "float"}

\* The number v, in units of 1/FloatDen.
Num(v) == IF v.t = "int" THEN v.i * FloatDen ELSE v.num

\* Python's ==  on the values of the model: numbers compare by value
\* (1 == 1.0), everything else by type and content.
PyEq(a, b) == IF IsNumber(a) /\ IsNumber(b) THEN Num(a) = Num(b) ELSE a = b

\* Python's == on lists.
PyListEq(xs, ys) ==
    /\ Len(xs) = Len(ys)
    /\ \A k \in 1..Len(xs) : PyEq(xs[k], ys[k])

(***************************************************************************)
(* cffi:  union wl_argument  and the buffers it points to.                 *)
(* A slot holds either a 32-bit word (fields i, u, f, h, n) or a pointer   *)
(* (fields s, o, a); ffi.new zero-fills, and the all-zero slot reads as    *)
(* the word 0 and as the null pointer.                                     *)
(***************************************************************************)
\* Bits of an integer field.  int32_t and uint32_t have 32; the model's
\* words are narrower, and every operator below is written for any width.
WordBits == 16

Two32 == 2 ^ WordBits

Two31 == 2 ^ (WordBits - 1)

WordSlot(w) == [k |-> "word", w |-> w]

PtrSlot(buf) == [k |-> "ptr", to |-> buf]

\* ffi.NULL stored in a pointer field, and every slot of a fresh ffi.new array.
NullSlot == WordSlot(0)

\* The bit pattern of the C integer n in a 32-bit field.
ToWord(n) == n % Two32

\* A 32-bit field read as int32_t.
AsSigned(w) == IF w >= Two31 THEN w - Two32 ELSE w

\* ffi.new('char []', bytes): the bytes and a terminating zero.
CharArray(bs) == [ty |-> "char[]", bytes |-> bs \o <<0>>]

\* ffi.cast('struct wl_object *', arg._ptr)
ObjectPtr(p) == [ty |-> "wl_object*", ptr |-> p]

\* ffi.new('struct wl_array *') with size and alloc set; data stays NULL.
WlArray(n) == [ty |-> "wl_array", size |-> n, alloc |-> n, data |-> [ty |-> "NULL"]]

\* ffi.new('void []', n) filled through ffi.buffer, read as the allocation
\* of n bytes it is written for.
VoidArray(bs) == [ty |-> "void[]", bytes |-> bs]

\* Assignment of a Python value to an integer field of width lo..hi:
\* cffi takes an int in range, and raises otherwise.
CIntExc(arg, lo, hi) ==
    IF arg.t # "int" THEN "TypeError"
    ELSE IF arg.i < lo \/ arg.i > hi THEN "OverflowError"
    ELSE ""

RECURSIVE CString(_)
\* ffi.string(char *): the bytes before the first zero.
CString(bs) ==
    IF bs = <<>> \/ Head(bs) = 0 THEN <<>> ELSE <<Head(bs)>> \o CString(Tail(bs))

\* lib.wl_fixed_from_int
wl_fixed_from_int(i) == AsSigned(ToWord(i * FixedOne))

\* lib.wl_fixed_from_double: d * 256 rounded to the nearest integer, ties to
\* even (the addition of 3 << 43 in double arithmetic).  num is d * FloatDen.
wl_fixed_from_double(num) ==
    LET q == num \div 4
        r == num % 4
    IN  IF r < 2 THEN q
        ELSE IF r > 2 THEN q + 1
        ELSE IF q % 2 = 0 THEN q ELSE q + 1

\* lib.wl_fixed_to_double: f / 256.0, as a float of the model.
wl_fixed_to_double(f) == PyFloat(f * 4)

(***************************************************************************)
(* re_arg = re.compile(r"(\??)([uifsonah])")                               *)
(***************************************************************************)
Letters == {"u", "i", "f", "s", "o", "n", "a", "h"}

NoMatch == [found |-> FALSE, null |-> "", sig |-> "", end |-> 0]

\* re_arg matched at position p of s: the two groups and the position after
\* the match, or NoMatch.
re_arg_match_never_null(s, p) ==
    IF s[p] \in Letters
    THEN [found |-> TRUE, null |-> "", sig |-> s[p], end |-> p + 1]
    ELSE NoMatch

re_arg_match(s, p) ==
    IF s[p] = "?" /\ p < Len(s) /\ s[p + 1] \in Letters
    THEN [found |-> TRUE, null |-> "?", sig |-> s[p + 1], end |-> p + 2]
    ELSE IF s[p] \in Letters
    THEN [found |-> TRUE, null |-> "", sig |-> s[p], end |-> p + 1]
    ELSE NoMatch

RECURSIVE Scan(_, _)
\* The non-overlapping matches of re_arg in s from position p on, left to right.
Scan(s, p) ==
    IF p > Len(s) THEN <<>>
    ELSE LET m == re_arg_match(s, p)
         IN  IF m.found
             THEN <<[null |-> m.null, sig |-> m.sig]>> \o Scan(s, m.end)
             ELSE Scan(s, p + 1)

\* re_arg.finditer(signature), each match as its groups().
finditer(s) == Scan(s, 1)

(***************************************************************************)
(* Message.arguments_to_c                                                  *)
(***************************************************************************)
\* One turn of the loop body after  arg = next(arg_iter): the exception it
\* raises (or ""), the slot as it leaves it, and what it appends to refs.
EncodeArg(null, sig, arg, old) ==
    LET fail(e) == [exc |-> e, slot |-> old, refs |-> <<>>]
        done(s, r) == [exc |-> "", slot |-> s, refs |-> r]
    IN  CASE sig = "i" ->
                LET e == CIntExc(arg, -Two31, Two31 - 1)
                IN  IF e # "" THEN fail(e) ELSE done(WordSlot(ToWord(arg.i)), <<>>)
          [] sig = "u" ->
                LET e == CIntExc(arg, 0, Two32 - 1)
                IN  IF e # "" THEN fail(e) ELSE done(WordSlot(ToWord(arg.i)), <<>>)
          [] sig = "f" ->
                IF arg.t = "int"
                THEN LET e == CIntExc(arg, -Two31, Two31 - 1)
                     IN  IF e # "" THEN fail(e)
                         ELSE done(WordSlot(ToWord(wl_fixed_from_int(arg.i))), <<>>)
                ELSE IF arg.t = "float"
                THEN done(WordSlot(ToWord(wl_fixed_from_double(arg.num))), <<>>)
                ELSE fail("TypeError")
          [] sig = "h" ->
                LET e == CIntExc(arg, -Two31, Two31 - 1)
                IN  IF e # "" THEN fail(e) ELSE done(WordSlot(ToWord(arg.i)), <<>>)
          [] sig = "s" ->
                IF arg = None
                THEN IF null = "" THEN fail("Exception") ELSE done(NullSlot, <<>>)
                ELSE IF arg.t # "str" THEN fail("AttributeError")
                ELSE LET new_arg == CharArray(arg.chars)
                     IN  done(PtrSlot(new_arg), <<new_arg>>)
          [] sig = "o" ->
                IF arg = None
                THEN IF null = "" THEN fail("Exception") ELSE done(NullSlot, <<>>)
                ELSE IF arg.t # "object" THEN fail("AttributeError")
                ELSE LET new_arg == ObjectPtr(arg.ptr)
                     IN  done(PtrSlot(new_arg), <<new_arg>>)
          [] sig = "a" ->
                IF arg.t # "bytes" THEN fail("TypeError")
                ELSE done(old, <<WlArray(Len(arg.bytes)), VoidArray(arg.bytes)>>)

RECURSIVE EncodeLoop(_, _, _, _, _)
\* The for loop of arguments_to_c from match i on: rest is what arg_iter has
\* left, slots is args_ptr, refs is refs.  The result is the state of the
\* locals when the loop ends or raises.
EncodeLoop(matches, i, rest, slots, refs) ==
    IF i > Len(matches) THEN [exc |-> "", slots |-> slots, refs |-> refs]
    ELSE IF matches[i].sig = "n"
    THEN EncodeLoop(matches, i + 1, rest, [slots EXCEPT ![i] = NullSlot], refs)
    ELSE IF rest = <<>>
    THEN [exc |-> "StopIteration", slots |-> slots, refs |-> refs]
    ELSE LET r == EncodeArg(matches[i].null, matches[i].sig, Head(rest), slots[i])
         IN  IF r.exc # ""
             THEN [exc |-> r.exc, slots |-> slots, refs |-> refs]
             ELSE EncodeLoop(matches, i + 1, Tail(rest),
                             [slots EXCEPT ![i] = r.slot], refs \o r.refs)

\* Python's  d[key] = value
DictSet(d, key, value) ==
    [x \in DOMAIN d \cup {key} |-> IF x = key THEN value ELSE d[x]]

\* A weak key's entry goes when the key is collected.
DictDrop(d, key) == [x \in DOMAIN d \ {key} |-> d[x]]

\* arguments_to_c, were refs put in weakkeydict as soon as it is non-empty.
arguments_to_c_early(table, addr, sig, args) ==
    LET matches == finditer(sig)
        r == EncodeLoop(matches, 1, args, [k \in 1..Len(matches) |-> NullSlot], <<>>)
        t == IF r.refs # <<>> THEN DictSet(table, addr, r.refs) ELSE table
    IN  IF r.exc # ""
        THEN [exc |-> r.exc, ret |-> <<>>, matches |-> matches, weakkeydict |-> t]
        ELSE [exc |-> "", ret |-> r.slots, matches |-> matches, weakkeydict |-> t]

\* Message.arguments_to_c(*args) with args_ptr allocated at addr: the
\* exception raised (or ""), the array returned, the matches of the
\* signature, and weakkeydict as the call leaves it.
arguments_to_c(table, addr, sig, args) ==
    LET matches == finditer(sig)
        r == EncodeLoop(matches, 1, args, [k \in 1..Len(matches) |-> NullSlot], <<>>)
    IN  IF r.exc # ""
        THEN [exc |-> r.exc, ret |-> <<>>, matches |-> matches, weakkeydict |-> table]
        ELSE [exc |-> "", ret |-> r.slots, matches |-> matches,
              weakkeydict |-> IF r.refs # <<>>
                              THEN DictSet(table, addr, r.refs) ELSE table]

(***************************************************************************)
(* Message.c_to_arguments                                                  *)
(***************************************************************************)
RECURSIVE DecodeLoop(_, _, _, _)
\* The for loop of c_to_arguments from match i on; args is the list so far.
\* arg_ptr == ffi.NULL  is read as the test its branch is written for: the
\* slot holds the null pointer.  Object, new id and array add nothing.
DecodeLoop(matches, i, raw, args) ==
    IF i > Len(matches) THEN [exc |-> "", ret |-> args]
    ELSE IF i > Len(raw) THEN [exc |-> "IndexError", ret |-> <<>>]
    ELSE LET arg_ptr == raw[i]
             null == matches[i].null
             sig == matches[i].sig
             next(v) == DecodeLoop(matches, i + 1, raw, Append(args, v))
         IN  CASE sig = "i" -> next(PyInt(AsSigned(arg_ptr.w)))
               [] sig = "u" -> next(PyInt(arg_ptr.w))
               [] sig = "f" -> next(wl_fixed_to_double(AsSigned(arg_ptr.w)))
               [] sig = "h" -> next(PyInt(AsSigned(arg_ptr.w)))
               [] sig = "s" ->
                     IF arg_ptr = NullSlot
                     THEN IF null = "" THEN [exc |-> "Exception", ret |-> <<>>]
                          ELSE next(None)
                     ELSE next(PyStr(CString(arg_ptr.to.bytes)))
               [] sig \in {"o", "n"} -> DecodeLoop(matches, i + 1, raw, args)
               [] sig = "a" -> DecodeLoop(matches, i + 1, raw, args)

\* Message.c_to_arguments(args_ptr)
c_to_arguments(sig, args_ptr) == DecodeLoop(finditer(sig), 1, args_ptr, <<>>)


(***************************************************************************)
(* The messages, callers and transport of the model.                       *)
(***************************************************************************)
\* The characters signatures are made of: the kind letters, the nullable
\* mark and a version digit.
Chars == Letters \cup {"?", "2"}

RECURSIVE Strings(_)
\* The strings over Chars of length n or less.
Strings(n) ==
    IF n = 0 THEN {<<>>}
    ELSE LET S == Strings(n - 1)
         IN  S \cup {Append(s, c) : s \in S, c \in Chars}

\* The signatures of the events of wl_events.py.
Fixtures ==
    { <<"n", "i", "u", "h">>, <<>>, <<"n">>, <<"?", "s">>, <<"n", "?", "o">>, <<"2">> }

\* Signatures of the core wayland protocol: wl_data_offer.accept and
\* .receive, wl_keyboard.enter, wl_pointer.motion, wl_data_device.set_selection,
\* wl_seat.name.
Protocol ==
    { <<"u", "?", "s">>, <<"s", "h">>, <<"u", "o", "a">>, <<"u", "f", "f">>,
      <<"?", "o", "u">>, <<"2", "s">> }

Signatures == Strings(MaxSigLen) \cup Fixtures \cup Protocol

Interfaces == {"WlCore", "WlRequests"}

RECURSIVE Prod(_)
\* The sequences whose k-th element is drawn from the k-th set of cs.
Prod(cs) ==
    IF cs = <<>> THEN {<<>>}
    ELSE {<<x>> \o r : x \in Head(cs), r \in Prod(Tail(cs))}

\* The types lists a protocol gives a signature: an interface or None for
\* an object or new id, None for every other argument.
TypeTables(sig) ==
    LET matches == finditer(sig)
    IN  Prod([k \in 1..Len(matches) |->
                IF matches[k].sig \in {"o", "n"}
                THEN Interfaces \cup {"None"} ELSE {"None"}])

\* The _ptr of the Message, and of the two places an args_ptr is allocated at.
MsgPtr == 0

Addrs == {1, 2}

WlCoreObj == PyObj("WlCore", 11)

WlRequestsObj == PyObj("WlRequests", 12)

StrHi == PyStr(<<104, 105>>)

\* A str with an embedded NUL.
StrNul == PyStr(<<104, 0, 105>>)

\* What a caller passes for an argument of each kind: values of the kind
\* and, for some, None or a value of another kind.  7 is an int for a fixed,
\* 1538/1024 a float halfway between two fixed values, -5 is out of range
\* for an unsigned.
Cand(sig) ==
    CASE sig = "i" -> {PyInt(-5), PyInt(7)}
      [] sig = "u" -> {PyInt(-5), PyInt(7)}
      [] sig = "f" -> {PyInt(7), PyFloat(1538)}
      [] sig = "h" -> {PyInt(3), StrHi}
      [] sig = "s" -> {StrHi, StrNul, None}
      [] sig = "o" -> {WlCoreObj, None}
      [] sig = "a" -> {PyBytes(<<1, 2>>), None}
      [] sig = "n" -> {WlRequestsObj}

\* The values passed beyond the ones the signature asks for.
ExtraSeqs == UNION {[1..n -> {PyInt(7)}] : n \in 0..MaxExtra}

\* The argument lists callers pass: one value per argument as the generated
\* wrappers of wl_events.py do (the new id included), or one per argument
\* that is not a new id; each of them cut short, and each with extra values.
ArgLists(sig) ==
    LET matches == finditer(sig)
        kinds == [k \in 1..Len(matches) |-> matches[k].sig]
        consumed == SelectSeq(kinds, LAMBDA x : x # "n")
        full == Prod([k \in 1..Len(kinds) |-> Cand(kinds[k])])
                  \cup Prod([k \in 1..Len(consumed) |-> Cand(consumed[k])])
    IN  UNION {{SubSeq(s, 1, n) : n \in 0..Len(s)} \cup {s \o e : e \in ExtraSeqs}
               : s \in full}

\* What the transport puts in the slot of an argument of each kind.
Wire(sig) ==
    CASE sig = "i" -> {WordSlot(ToWord(-5)), WordSlot(7)}
      [] sig = "u" -> {WordSlot(ToWord(-5)), WordSlot(7)}
      [] sig = "f" -> {WordSlot(384)}
      [] sig = "h" -> {WordSlot(3)}
      [] sig = "s" -> {NullSlot, PtrSlot(CharArray(<<104, 105>>))}
      [] sig = "o" -> {NullSlot, PtrSlot(ObjectPtr(11))}
      [] sig = "n" -> {WordSlot(5)}
      [] sig = "a" -> {PtrSlot([ty |-> "wl_array", size |-> 2, alloc |-> 2,
                                data |-> VoidArray(<<1, 2>>)])}

\* The raw arrays of a dispatched message: one slot per argument.
WireArrays(sig) ==
    LET matches == finditer(sig)
    IN  Prod([k \in 1..Len(matches) |-> Wire(matches[k].sig)])

NoFrame == [held |-> FALSE]

NoCall == [op |-> "none"]

\* Message.__init__: the name, signature and types buffers are kept alive
\* under the wl_message struct.
Message__init__(sig, tt) == DictSet(<<>>, MsgPtr, <<"event", sig, tt>>)

Init ==
    \E sig \in Signatures :
        \E tt \in TypeTables(sig) :
            /\ signature = sig
            /\ types = tt
            /\ weakkeydict = Message__init__(sig, tt)
            /\ frame = NoFrame
            /\ call = NoCall

\* A caller runs  args_ptr = message.arguments_to_c(*args) : on return the
\* array it held before is collected, and its weakkeydict entry with it; on
\* an exception it holds what it held.
Encode ==
    \E args \in ArgLists(signature) :
        LET addr == IF frame.held /\ frame.addr = 1 THEN 2 ELSE 1
            r == arguments_to_c(weakkeydict, addr, signature, args)
        IN  /\ call' = [op |-> "arguments_to_c", args |-> args, matches |-> r.matches,
                        exc |-> r.exc, ret |-> r.ret]
            /\ IF r.exc = ""
               THEN /\ frame' = [held |-> TRUE, addr |-> addr, slots |-> r.ret,
                                 args |-> args]
                    /\ weakkeydict' = IF frame.held
                                      THEN DictDrop(r.weakkeydict, frame.addr)
                                      ELSE r.weakkeydict
               ELSE /\ frame' = frame
                    /\ weakkeydict' = r.weakkeydict
            /\ UNCHANGED <<signature, types>>

\* message.c_to_arguments(args_ptr) on the array the caller holds or on the
\* array of a dispatched message.
Decode ==
    \E raw \in (IF frame.held THEN {frame.slots} ELSE {}) \cup WireArrays(signature) :
        LET r == c_to_arguments(signature, raw)
        IN  /\ call' = [op |-> "c_to_arguments", args |-> raw,
                        matches |-> finditer(signature), exc |-> r.exc, ret |-> r.ret]
            /\ UNCHANGED <<signature, types, weakkeydict, frame>>

\* The caller drops its array: the weak key goes, and its entry with it.
Release ==
    /\ frame.held
    /\ frame' = NoFrame
    /\ weakkeydict' = DictDrop(weakkeydict, frame.addr)
    /\ call' = [op |-> "del"]
    /\ UNCHANGED <<signature, types>>

Next == Encode \/ Decode \/ Release

Spec == Init /\ [][Next]_vars

(***************************************************************************)
(* What the claims are stated with.                                        *)
(***************************************************************************)
IsEncode == call.op = "arguments_to_c"

IsDecode == call.op = "c_to_arguments"

\* The call decoded the array the caller holds, made from frame.args.
DecodedHeld == IsDecode /\ frame.held /\ call.args = frame.slots

\* The argument descriptors of the Message.
Descr == finditer(signature)

\* The index, in the caller's values, of the value argument k takes when
\* every argument but a new id takes one value.
ArgIndex(m, k) == Cardinality({j \in 1..k : m[j].sig # "n"})

\* The positions of the kind letters of s.
LetterPos(s) == {p \in 1..Len(s) : s[p] \in Letters}

\* The position of the k-th kind letter of s.
KthLetter(s, k) ==
    CHOOSE p \in LetterPos(s) : Cardinality({q \in LetterPos(s) : q <= p}) = k

\* s is version digits followed by tokens, a token being a kind letter or
\* "?" and a kind letter.
WellFormed(s) ==
    \A p \in 1..Len(s) :
        /\ s[p] = "?" => p < Len(s) /\ s[p + 1] \in Letters
        /\ s[p] = "2" => \A q \in 1..p : s[q] = "2"

\* v is a value an argument with descriptor d and type ty takes: an integer
\* of the field's range, a number a wl_fixed_t holds exactly, a str that is a
\* C string, an object of the interface, None where the argument is nullable.
Fits(d, ty, v) ==
    CASE d.sig = "i" -> v.t = "int" /\ v.i >= -Two31 /\ v.i < Two31
      [] d.sig = "u" -> v.t = "int" /\ v.i >= 0 /\ v.i < Two32
      [] d.sig = "f" -> IsNumber(v) /\ Num(v) % 4 = 0
      [] d.sig = "h" -> v.t = "int" /\ v.i >= 0 /\ v.i < Two31
      [] d.sig = "s" -> \/ v = None /\ d.null = "?"
                        \/ v.t = "str" /\ \A j \in 1..Len(v.chars) : v.chars[j] # 0
      [] d.sig = "o" -> \/ v = None /\ d.null = "?"
                        \/ v.t = "object" /\ (ty = "None" \/ v.iface = ty)
      [] d.sig = "a" -> v.t = "bytes"
      [] d.sig = "n" -> FALSE

\* One value per argument, each one the argument takes.
ValidValues(args) ==
    /\ Len(args) = Len(Descr)
    /\ \A k \in 1..Len(Descr) : Fits(Descr[k], types[k], args[k])

\* The values the signature consumes by the rule of the specification: none
\* for a new id of a known interface, three for one of an unknown interface,
\* one for every other argument.
Consumption ==
    LET n(k) == IF Descr[k].sig # "n" THEN 1 ELSE IF types[k] = "None" THEN 3 ELSE 0
        RECURSIVE sum(_)
        sum(k) == IF k = 0 THEN 0 ELSE n(k) + sum(k - 1)
    IN  sum(Len(Descr))

(***************************************************************************)
(* The claims.                                                             *)
(***************************************************************************)
\* C1: for a signature without new id and array arguments and values that
\* fit every argument, c_to_arguments of the array arguments_to_c returned
\* gives a list equal to the values.
RoundTrip ==
    ( /\ DecodedHeld
      /\ \A k \in 1..Len(Descr) : Descr[k].sig \notin {"n", "a"}
      /\ ValidValues(frame.args) )
    => call.exc = "" /\ PyListEq(call.ret, frame.args)

\* C2: None for a string or object argument that is not nullable makes
\* arguments_to_c raise; None for a nullable one gives a null slot, and
\* c_to_arguments of that array gives None at the same position.
NullabilityEnforced ==
    /\ IsEncode =>
          \A k \in 1..Len(Descr) :
              ( /\ Descr[k].sig \in {"s", "o"}
                /\ Descr[k].null = ""
                /\ ArgIndex(Descr, k) <= Len(call.args)
                /\ call.args[ArgIndex(Descr, k)] = None )
              => call.exc # ""
    /\ (IsEncode /\ ValidValues(call.args)) =>
          /\ call.exc = ""
          /\ \A k \in 1..Len(Descr) : call.args[k] = None => call.ret[k] = NullSlot
    /\ (DecodedHeld /\ ValidValues(frame.args)) =>
          \A k \in 1..Len(Descr) :
              frame.args[k] = None =>
                  call.exc = "" /\ k <= Len(call.ret) /\ call.ret[k] = None

\* C3: arguments_to_c returns an array only when the caller passes as many
\* values as the signature consumes.
ArgCountEnforced == (IsEncode /\ call.exc = "") => Len(call.args) = Consumption

\* C4: c_to_arguments of an array with one slot per argument raises or
\* returns one entry per argument, the integer of slot k at entry k.
DecodeNotTruncated ==
    (IsDecode /\ Len(call.args) = Len(Descr) /\ call.exc = "") =>
        /\ Len(call.ret) = Len(Descr)
        /\ \A k \in 1..Len(Descr) :
              Descr[k].sig \in {"i", "h"} => call.ret[k] = PyInt(AsSigned(call.args[k].w))

\* C5: for "niuh" with types [WlRequests, None, None, None] and the four
\* values [id, a, b, c] of send_event, arguments_to_c returns the array with
\* the object in slot 0, a in slot 1, b in slot 2 and c in slot 3.
PositionalNewId ==
    ( /\ IsEncode
      /\ signature = <<"n", "i", "u", "h">>
      /\ types = <<"WlRequests", "None", "None", "None">>
      /\ Len(call.args) = 4
      /\ call.args[1] = WlRequestsObj
      /\ \A k \in 2..4 : Fits(Descr[k], "None", call.args[k]) )
    => /\ call.exc = ""
       /\ call.ret = << PtrSlot(ObjectPtr(call.args[1].ptr)),
                        WordSlot(ToWord(call.args[2].i)),
                        WordSlot(ToWord(call.args[3].i)),
                        WordSlot(ToWord(call.args[4].i)) >>

\* C6: a call of arguments_to_c that raises leaves weakkeydict with the
\* entries it had, and the caller with the array it held.
EncodeFailureAtomic ==
    [][ (call'.op = "arguments_to_c" /\ call'.exc # "")
        => (weakkeydict' = weakkeydict /\ frame' = frame) ]_vars

\* C6, its case: the call raised on None for an object that is not nullable,
\* after the first value, while the caller held an array with an entry.
EncodeFailedMidway ==
    /\ IsEncode
    /\ call.exc = "Exception"
    /\ Len(call.args) >= 2
    /\ call.args[1] # None
    /\ frame.held
    /\ frame.addr \in DOMAIN weakkeydict

\* C7: the descriptors of a well-formed signature are its kind letters, in
\* order, each nullable exactly when "?" is right before it; version digits
\* give none, so "" and "2" encode to an empty array with no weakkeydict
\* entry, and "n?o" is a new id and a nullable object.
SignatureParsed ==
    /\ (call.op \in {"arguments_to_c", "c_to_arguments"} /\ WellFormed(signature)) =>
          /\ Len(call.matches) = Cardinality(LetterPos(signature))
          /\ \A k \in 1..Len(call.matches) :
                LET p == KthLetter(signature, k)
                IN  /\ call.matches[k].sig = signature[p]
                    /\ call.matches[k].null = "?" <=> (p > 1 /\ signature[p - 1] = "?")
    /\ (IsEncode /\ signature \in {<<>>, <<"2">>}) =>
          /\ call.exc = ""
          /\ call.ret = <<>>
          /\ frame.held /\ frame.slots = <<>>
          /\ frame.addr \notin DOMAIN weakkeydict
    /\ (IsEncode /\ signature = <<"n", "?", "o">>) =>
          call.matches = <<[null |-> "", sig |-> "n"], [null |-> "?", sig |-> "o"]>>

\* C7, its case: arguments_to_c scanned "n?o" and returned.
ScannedNullable ==
    IsEncode /\ signature = <<"n", "?", "o">> /\ call.exc = "" /\ Len(call.ret) = 2

\* C8: an object passed for an argument of a known interface is written
\* only when it is of that interface.
ObjectTypeChecked ==
    (IsEncode /\ call.exc = "") =>
        \A k \in 1..Len(Descr) :
            ( /\ Descr[k].sig = "o"
              /\ types[k] # "None"
              /\ call.args[ArgIndex(Descr, k)].t = "object" )
            => call.args[ArgIndex(Descr, k)].iface = types[k]

\* C9: the slot of an array argument points to a wl_array whose size is the
\* length of the bytes passed and whose data is a copy of them.
ArrayEncoded ==
    (IsEncode /\ call.exc = "") =>
        \A k \in 1..Len(Descr) :
            Descr[k].sig = "a" =>
                LET b == call.args[ArgIndex(Descr, k)].bytes
                IN  /\ call.ret[k].k = "ptr"
                    /\ call.ret[k].to.ty = "wl_array"
                    /\ call.ret[k].to.size = Len(b)
                    /\ call.ret[k].to.data = VoidArray(b)

\* C10: the array a caller holds has the buffer of each of its pointer
\* slots in its weakkeydict entry, has no entry when it has no pointer slot,
\* and weakkeydict has no entry of another array.
BuffersKeptAlive ==
    frame.held =>
        LET ptrs == {k \in 1..Len(frame.slots) : frame.slots[k].k = "ptr"}
        IN  /\ \A k \in ptrs :
                  /\ frame.addr \in DOMAIN weakkeydict
                  /\ \E j \in 1..Len(weakkeydict[frame.addr]) :
                        weakkeydict[frame.addr][j] = frame.slots[k].to
            /\ ptrs = {} => frame.addr \notin DOMAIN weakkeydict
            /\ DOMAIN weakkeydict \subseteq {MsgPtr, frame.addr}

=============================================================================
